---------------------------- MODULE Spec2Model ----------------------------
(***************************************************************************)
(* A model of the ipcalc-go calculator package (pkg/calculator, IPv4       *)
(* part): address and netmask parsing, CalculateNetwork, Deaggregate and   *)
(* SplitNetwork.                                                           *)
(*                                                                         *)
(* The program computes on uint32.  The model computes on unsigned         *)
(* integers of Width bits with the same wrap-around rules (arithmetic      *)
(* modulo 2^Width, a shift by Width or more bits gives 0), so that every   *)
(* address of the space can be enumerated.  Where the source writes 32,    *)
(* 31 or 0xFFFFFFFF the model writes Width, Width - 1 or MaxAddr.          *)
(***************************************************************************)
EXTENDS Integers, Sequences, FiniteSets, TLC

VARIABLES
    \* Deaggregate: its parameters, locals, return values and position.
    startStr, endStr, start, end, result, deagErr, deagPc,
    \* SplitNetwork: its parameters, locals, return values and position.
    networkStr, maskStr, sizes, network, totalHosts, hostCounts,
    totalRequired, hostsNeeded, sizeIdx, currentIP, subnets, splitErr, splitPc,
    \* One call of a function without loops of its own: the function called
    \* ("none" before the call) and its arguments and return values.
    call, ret,
    \* The command (main): the parsed flags, len(args), how the mode's handler
    \* ends, the position in main, what was printed to stdout, the exit status.
    flags, nargs, handler, mainPc, output, exitCode

deagVars == <<startStr, endStr, start, end, result, deagErr, deagPc>>

splitVars ==
    <<networkStr, maskStr, sizes, network, totalHosts, hostCounts,
      totalRequired, hostsNeeded, sizeIdx, currentIP, subnets, splitErr, splitPc>>

pureVars == <<call, ret>>

mainVars == <<flags, nargs, handler, mainPc, output, exitCode>>

vars == <<deagVars, splitVars, pureVars, mainVars>>

\* Width of an address in bits (the program: 32).
Width == 5

\* Longest request list handed to SplitNetwork.
MaxReq == 2

\* The flags of the command, none given.
NoFlags ==
    [help |-> FALSE, showVersion |-> FALSE, html |-> FALSE, classOnly |-> FALSE,
     deaggregate |-> FALSE, split |-> FALSE]

RECURSIVE Pow2(_)
Pow2(n) == IF n <= 0 THEN 1 ELSE 2 * Pow2(n - 1)

Modulus == Pow2(Width)
MaxAddr == Modulus - 1
Addr == 0 .. MaxAddr

(***************************************************************************)
(* uint32 arithmetic.                                                      *)
(***************************************************************************)

\* Conversion to the unsigned type: uint32(x), also of a negative int.
U32(x) == x % Modulus

\* x << n on the unsigned type; Go gives 0 when n >= the type's width.
Shl(x, n) == IF n >= Width THEN 0 ELSE (x * Pow2(n)) % Modulus

\* x >> n on the unsigned type.
Shr(x, n) == IF n >= Width THEN 0 ELSE x \div Pow2(n)

RECURSIVE BitAndN(_, _, _)
BitAndN(a, b, n) ==
    IF n = 0 THEN 0
    ELSE 2 * BitAndN(a \div 2, b \div 2, n - 1)
         + (IF a % 2 = 1 /\ b % 2 = 1 THEN 1 ELSE 0)

\* a & b
BitAnd(a, b) == BitAndN(a, b, Width)

\* ^a
BitNot(a) == MaxAddr - a

\* a | b
BitOr(a, b) == BitNot(BitAnd(BitNot(a), BitNot(b)))

(***************************************************************************)
(* Address text.  A dotted-quad text is the sequence of its four decimal   *)
(* fields.  The i-th field carries the bits from OctetShift(i) up to       *)
(* OctetShift(i - 1); with Width = 32 these are the shifts 24, 16, 8, 0    *)
(* and fields of 8 bits.                                                   *)
(***************************************************************************)

OctetShift(i) == ((4 - i) * Width) \div 4

OctetWidth(i) == OctetShift(i - 1) - OctetShift(i)

OctetLimit(i) == Pow2(OctetWidth(i))

\* IPToString without the "& 0xFF".
IPToStringUnmasked(ip) == [i \in 1 .. 4 |-> Shr(ip, OctetShift(i))]

\* IPToString: the four fields (ip >> shift) & 0xFF.
IPToString(ip) ==
    [i \in 1 .. 4 |-> Shr(ip, OctetShift(i)) % OctetLimit(i)]

(***************************************************************************)
(* IPv6 (pkg/calculator/ipv6.go).  Addresses are big integers, never       *)
(* wrapped.  The 128 bits are scaled to V6Width bits: the Width bits of an *)
(* embedded IPv4 address, above them the 1 bits of the IPv4-mapped prefix  *)
(* (16 in the program, 2 here) and above those its 0 bits (80 in the       *)
(* program, 2 here).                                                       *)
(***************************************************************************)

V6Width == Width + 4
V6Modulus == Pow2(V6Width)
V6Addr == 0 .. V6Modulus - 1

\* The IPv4-mapped prefix ::ffff:0:0/96.
MappedPrefix == 3 * Pow2(Width)

\* The number of groups of an IPv6 text.
V6Groups == 8

\* An IPv6 text is the sequence of its groups, Ellipsis standing for "::".
\* The i-th group carries the bits from GroupShift(i) up to GroupShift(i - 1).
Ellipsis == -1
GroupShift(i) == ((V6Groups - i) * V6Width) \div V6Groups
GroupLimit(i) == Pow2(GroupShift(i - 1) - GroupShift(i))

\* A text with a colon in it.
HasColon(text) ==
    Len(text) = V6Groups \/ \E i \in 1 .. Len(text) : text[i] = Ellipsis

\* big.Int And of two values below 2^128.
BigAnd(a, b) == BitAndN(a, b, V6Width)

\* The groups of an IPv6 text with its "::" expanded; <<>> when the text is
\* not an IPv6 text (no or too many groups, two "::", a "::" that stands for
\* no group, a group above 0xffff).
ExpandGroups(text) ==
    LET marks == {i \in 1 .. Len(text) : text[i] = Ellipsis}
        k == CHOOSE i \in marks : TRUE
        missing == V6Groups - (Len(text) - 1)
        groups == IF marks = {} THEN text
                  ELSE SubSeq(text, 1, k - 1)
                       \o [i \in 1 .. missing |-> 0]
                       \o SubSeq(text, k + 1, Len(text))
    IN  IF Cardinality(marks) > 1 THEN <<>>
        ELSE IF marks = {} /\ Len(text) # V6Groups THEN <<>>
        ELSE IF marks # {} /\ missing < 1 THEN <<>>
        ELSE IF \E i \in 1 .. V6Groups : groups[i] \notin 0 .. GroupLimit(i) - 1
             THEN <<>>
        ELSE groups

RECURSIVE GroupsValue(_, _)
GroupsValue(groups, i) ==
    IF i > V6Groups THEN 0
    ELSE groups[i] * Pow2(GroupShift(i)) + GroupsValue(groups, i + 1)

\* net.ParseIP: the 16-byte form of a dotted-quad text (the IPv4-mapped
\* address) or of an IPv6 text; fails on any other text.
ParseIP(text) ==
    IF HasColon(text)
    THEN LET groups == ExpandGroups(text)
         IN  IF groups = <<>> THEN [ok |-> FALSE, val |-> 0]
             ELSE [ok |-> TRUE, val |-> GroupsValue(groups, 1)]
    ELSE IF Len(text) = 4 /\ \A i \in 1 .. 4 : text[i] \in 0 .. OctetLimit(i) - 1
    THEN [ok |-> TRUE,
          val |-> MappedPrefix + text[1] * Pow2(OctetShift(1))
                  + text[2] * Pow2(OctetShift(2))
                  + text[3] * Pow2(OctetShift(3)) + text[4]]
    ELSE [ok |-> FALSE, val |-> 0]

\* net.IP.To4: the last 4 bytes of an IPv4-mapped 16-byte address; nil for
\* any other address and for nil.
To4(ip) ==
    IF ip.ok /\ ip.val \div Pow2(Width) = MappedPrefix \div Pow2(Width)
    THEN [ok |-> TRUE, val |-> ip.val % Pow2(Width)]
    ELSE [ok |-> FALSE, val |-> 0]

\* Byte i of a 4-byte address.
Octet(val, i) == (val \div Pow2(OctetShift(i))) % OctetLimit(i)

\* Line 37: the four bytes shifted and ORed, or the error when To4 gave nil.
Uint32OfBytes(ip4) ==
    IF ~ip4.ok THEN [ok |-> FALSE, val |-> 0]
    ELSE [ok |-> TRUE,
          val |-> BitOr(BitOr(Shl(Octet(ip4.val, 1), OctetShift(1)),
                              Shl(Octet(ip4.val, 2), OctetShift(2))),
                        BitOr(Shl(Octet(ip4.val, 3), OctetShift(3)),
                              Octet(ip4.val, 4)))]

\* ParseIPv4: net.ParseIP, then To4, then the bytes as a uint32; the error
\* when net.ParseIP or To4 gives nil.
ParseIPv4(ipStr) == Uint32OfBytes(To4(ParseIP(ipStr)))

\* A text whose first field is out of range ("256.0.0.0").
BadText == <<OctetLimit(1), 0, 0, 0>>

\* fmt.Sprintf("%s/%d", ip, prefix)
CidrString(ip, prefix) == [ip |-> ip, prefix |-> prefix]

(***************************************************************************)
(* Netmask text: an integer (CIDR bit count) or a dotted-quad mask.        *)
(***************************************************************************)

IntText(n) == [kind |-> "int", n |-> n]

DottedText(t) == [kind |-> "dotted", text |-> t]

\* A text that is neither an integer nor an address ("abc").
JunkText == [kind |-> "junk"]

\* "/" followed by the text t.
SlashText(t) == [kind |-> "slash", rest |-> t]

\* strings.TrimPrefix(text, "/"): one leading slash is removed.
TrimPrefix(maskText) ==
    IF maskText.kind = "slash" THEN maskText.rest ELSE maskText

\* The loop "for i := 0; i < bitCount; i++ { mask |= 1 << (31 - i) }".
RECURSIVE MaskOfBits(_)
MaskOfBits(bitCount) ==
    IF bitCount <= 0 THEN 0
    ELSE BitOr(MaskOfBits(bitCount - 1), Shl(1, (Width - 1) - (bitCount - 1)))

\* isValidNetmask: scanning from the top bit, no 1 may follow a 0.
RECURSIVE ValidScan(_, _, _)
ValidScan(mask, i, foundZero) ==
    IF i < 0 THEN TRUE
    ELSE LET bit == BitAnd(mask, Shl(1, i)) # 0
         IN  IF ~bit THEN ValidScan(mask, i - 1, TRUE)
             ELSE IF foundZero THEN FALSE
             ELSE ValidScan(mask, i - 1, foundZero)

\* The validity check that accepts every mask.
isValidNetmaskAny(mask) == TRUE

isValidNetmask(mask) == ValidScan(mask, Width - 1, FALSE)

\* The loop counting the leading 1 bits, left at the first 0.
RECURSIVE CountBits(_, _)
CountBits(mask, i) ==
    IF i >= Width THEN 0
    ELSE IF BitAnd(mask, Shl(1, (Width - 1) - i)) # 0
         THEN 1 + CountBits(mask, i + 1)
         ELSE 0

\* The range check of the bit count written without its lower bound.
BitCountInvalidNoLower(bitCount) == bitCount > Width

\* Line 49: "bitCount < 0 || bitCount > 32".
BitCountInvalid(bitCount) == bitCount < 0 \/ bitCount > Width

NetmaskError(e) == [ok |-> FALSE, mask |-> 0, bitCount |-> 0, err |-> e]

ParseNetmask(maskText) ==
    LET t == TrimPrefix(maskText)
    IN  IF t.kind = "int"
        THEN IF BitCountInvalid(t.n)
             THEN NetmaskError("invalid bit count")
             ELSE [ok |-> TRUE, mask |-> MaskOfBits(t.n), bitCount |-> t.n,
                   err |-> "none"]
        ELSE LET p == IF t.kind = "dotted" THEN ParseIPv4(t.text)
                      ELSE [ok |-> FALSE, val |-> 0]
             IN  IF ~p.ok THEN NetmaskError("invalid netmask")
                 ELSE IF ~isValidNetmask(p.val)
                      THEN NetmaskError("not contiguous")
                      ELSE [ok |-> TRUE, mask |-> p.val,
                            bitCount |-> CountBits(p.val, 0), err |-> "none"]

(***************************************************************************)
(* CalculateNetwork.                                                       *)
(***************************************************************************)

\* The class test with the B and C masks exchanged.
GetClassSwapped(ip) ==
    IF BitAnd(ip, Shl(1, Width - 1)) = 0 THEN "A"
    ELSE IF BitAnd(ip, Shl(7, Width - 3)) = Shl(4, Width - 3) THEN "B"
    ELSE IF BitAnd(ip, Shl(3, Width - 2)) = Shl(3, Width - 2) THEN "C"
    ELSE IF BitAnd(ip, Shl(15, Width - 4)) = Shl(14, Width - 4) THEN "D"
    ELSE "E"

GetClass(ip) ==
    IF BitAnd(ip, Shl(1, Width - 1)) = 0 THEN "A"
    ELSE IF BitAnd(ip, Shl(3, Width - 2)) = Shl(2, Width - 2) THEN "B"
    ELSE IF BitAnd(ip, Shl(7, Width - 3)) = Shl(6, Width - 3) THEN "C"
    ELSE IF BitAnd(ip, Shl(15, Width - 4)) = Shl(14, Width - 4) THEN "D"
    ELSE "E"

\* GetWildcardMask: ^netmask.
GetWildcardMask(netmask) == BitNot(netmask)

NoNetwork ==
    [ok |-> FALSE, Address |-> 0, Netmask |-> 0, BitCount |-> 0,
     Broadcast |-> 0, NetworkID |-> 0, HostMin |-> 0, HostMax |-> 0,
     HostsCount |-> 0, Class |-> ""]

\* The broadcast address taken from the address's host bits alone.
BroadcastWithoutNetwork(networkID, mask) == BitNot(mask)

\* Line 168: network.NetworkID | ^mask.
BroadcastOf(networkID, mask) == BitOr(networkID, BitNot(mask))

\* The network id left unmasked.
NetworkIDUnmasked(ip, mask) == ip

\* Line 165: ip & mask.
NetworkIDOf(ip, mask) == BitAnd(ip, mask)

\* The host fields without the special case for 31 bits.
HostFieldsNoP2P(bitCount, networkID, broadcast) ==
    IF bitCount = Width
    THEN [HostMin |-> networkID, HostMax |-> networkID, HostsCount |-> 1]
    ELSE [HostMin |-> U32(networkID + 1), HostMax |-> U32(broadcast - 1),
          HostsCount |-> U32(Shl(1, Width - bitCount) - 2)]

\* Lines 170-183: HostMin, HostMax and HostsCount by bit count.
HostFields(bitCount, networkID, broadcast) ==
    IF bitCount = Width - 1
    THEN [HostMin |-> networkID, HostMax |-> broadcast, HostsCount |-> 2]
    ELSE IF bitCount = Width
    THEN [HostMin |-> networkID, HostMax |-> networkID, HostsCount |-> 1]
    ELSE [HostMin |-> U32(networkID + 1), HostMax |-> U32(broadcast - 1),
          HostsCount |-> U32(Shl(1, Width - bitCount) - 2)]

\* The class taken of the network id.
ClassOfNetwork(ip, networkID) == GetClass(networkID)

\* Line 185: network.Class = GetClass(ip).
ClassOf(ip, networkID) == GetClass(ip)

CalculateNetwork(ipText, maskText) ==
    LET p == ParseIPv4(ipText)
        m == ParseNetmask(maskText)
    IN  IF ~p.ok THEN NoNetwork
        ELSE IF ~m.ok THEN NoNetwork
        ELSE LET ip == p.val
                 mask == m.mask
                 bitCount == m.bitCount
                 networkID == NetworkIDOf(ip, mask)
                 broadcast == BroadcastOf(networkID, mask)
                 hosts == HostFields(bitCount, networkID, broadcast)
             IN  [ok |-> TRUE, Address |-> ip, Netmask |-> mask,
                  BitCount |-> bitCount, Broadcast |-> broadcast,
                  NetworkID |-> networkID,
                  HostMin |-> hosts.HostMin,
                  HostMax |-> hosts.HostMax,
                  HostsCount |-> hosts.HostsCount,
                  Class |-> ClassOf(ip, networkID)]

(***************************************************************************)
(* IPv6 parsing, masks and formatting (pkg/calculator/ipv6.go).            *)
(***************************************************************************)

\* net.IP.To16 of a 16-byte address: the address itself, never nil.
To16(val) == [ok |-> TRUE, val |-> val]

\* ParseIPv6: net.ParseIP, then To16, then the 16 bytes as one integer.
ParseIPv6(text) ==
    LET ip == ParseIP(text)
        ip16 == To16(ip.val)
    IN  IF ~ip.ok THEN [ok |-> FALSE, val |-> 0, err |-> "invalid IP address"]
        ELSE IF ~ip16.ok
             THEN [ok |-> FALSE, val |-> 0, err |-> "not an IPv6 address"]
        ELSE [ok |-> TRUE, val |-> ip16.val, err |-> "none"]

\* The range check of the prefix written with >= : 128 is refused.
PrefixInvalidAt128(prefix) == prefix < 0 \/ prefix >= V6Width

\* Line 51: "prefix < 0 || prefix > 128".
PrefixInvalid(prefix) == prefix < 0 \/ prefix > V6Width

\* ParseIPv6Prefix: one leading slash removed, then an integer in range.
ParseIPv6Prefix(prefixText) ==
    LET t == TrimPrefix(prefixText)
    IN  IF t.kind # "int" THEN [ok |-> FALSE, val |-> 0]
        ELSE IF PrefixInvalid(t.n) THEN [ok |-> FALSE, val |-> 0]
        ELSE [ok |-> TRUE, val |-> t.n]

\* The mask shifted right only: the low bits are set, not the high ones.
MaskShiftedRightOnly(prefixLen) ==
    IF prefixLen < V6Width
    THEN (V6Modulus - 1) \div Pow2(V6Width - prefixLen)
    ELSE V6Modulus - 1

\* Lines 119-141 (and 61-83): 2^128 - 1, shifted right and then left by
\* 128 - prefixLen when prefixLen < 128.
PrefixMask(prefixLen) ==
    IF prefixLen < V6Width
    THEN ((V6Modulus - 1) \div Pow2(V6Width - prefixLen)) * Pow2(V6Width - prefixLen)
    ELSE V6Modulus - 1

\* IPv6ToNetworkID(ip, prefixLen).
IPv6ToNetworkID(ip, prefixLen) ==
    IF prefixLen < 0 THEN [ok |-> FALSE, val |-> 0]
    ELSE IF prefixLen > V6Width THEN [ok |-> FALSE, val |-> 0]
    ELSE [ok |-> TRUE, val |-> BigAnd(ip, PrefixMask(prefixLen))]

NoIPv6Network ==
    [ok |-> FALSE, Address |-> 0, PrefixLen |-> 0, NetworkID |-> 0,
     NetworkMask |-> 0]

CalculateIPv6Network(ipText, prefixText) ==
    LET ip == ParseIPv6(ipText)
        prefix == ParseIPv6Prefix(prefixText)
    IN  IF ~ip.ok THEN NoIPv6Network
        ELSE IF ~prefix.ok THEN NoIPv6Network
        ELSE IF prefix.val < 0 THEN NoIPv6Network
        ELSE IF prefix.val > V6Width THEN NoIPv6Network
        ELSE LET networkMask == PrefixMask(prefix.val)
             IN  [ok |-> TRUE, Address |-> ip.val, PrefixLen |-> prefix.val,
                  NetworkID |-> BigAnd(ip.val, networkMask),
                  NetworkMask |-> networkMask]

\* The groups of a 16-byte address.
GroupsOf(m) ==
    [i \in 1 .. V6Groups |-> (m \div Pow2(GroupShift(i))) % GroupLimit(i)]

\* The number of zero groups from group i on.
RECURSIVE ZeroRun(_, _)
ZeroRun(groups, i) ==
    IF i > V6Groups \/ groups[i] # 0 THEN 0 ELSE 1 + ZeroRun(groups, i + 1)

\* The first longest run of two or more zero groups, <<first, length>>;
\* <<0, 0>> when there is none.
RECURSIVE LongestZeroRun(_, _, _)
LongestZeroRun(groups, i, best) ==
    IF i > V6Groups THEN best
    ELSE LET l == ZeroRun(groups, i)
         IN  LongestZeroRun(groups, i + 1,
                            IF l >= 2 /\ l > best[2] THEN <<i, l>> ELSE best)

\* net.IP.String: dotted-quad for an IPv4-mapped address, else the groups
\* with the first longest run of zero groups written "::".
IPString(ip) ==
    IF To4(ip).ok THEN IPToString(To4(ip).val)
    ELSE LET groups == GroupsOf(ip.val)
             run == LongestZeroRun(groups, 1, <<0, 0>>)
         IN  IF run[2] = 0 THEN groups
             ELSE SubSeq(groups, 1, run[1] - 1) \o <<Ellipsis>>
                  \o SubSeq(groups, run[1] + run[2], V6Groups)

\* IPv6ToString: the value as 16 bytes, formatted by net.IP.String.
IPv6ToString(m) == IPString([ok |-> TRUE, val |-> m])

(***************************************************************************)
(* Deaggregate.                                                            *)
(***************************************************************************)

\* The range check written with >= : a one-address range is refused.
InvalidRangeOrEqual(s, e) == s >= e

\* The range check "if start > end".
InvalidRange(s, e) == s > e

\* The inner loop "for prefix = 0; prefix < 32; prefix++": the first prefix
\* whose block around s ends at or before e and starts at s; 32 when none.
RECURSIVE PrefixLoop(_, _, _)
PrefixLoop(prefix, s, e) ==
    IF ~(prefix < Width) THEN prefix
    ELSE LET mask == Shl(MaxAddr, Width - prefix)
             networkID == BitAnd(s, mask)
             blockEnd == BitOr(networkID, BitNot(mask))
         IN  IF blockEnd > e THEN PrefixLoop(prefix + 1, s, e)
             ELSE IF networkID = s THEN prefix
             ELSE PrefixLoop(prefix + 1, s, e)

\* "start += 1 << (32 - prefix)" on uint32.
Advance(s, prefix) == U32(s + Shl(1, Width - prefix))

\* The cap on the number of loop iterations the model follows; no cover of
\* a range by aligned blocks chosen greedily needs more than 2 * Width.
MaxIter == 2 * Width + 1

DeaggTexts == {IPToString(a) : a \in Addr} \cup {BadText}

DeaggInit ==
    /\ startStr \in DeaggTexts
    /\ endStr \in DeaggTexts
    /\ start = 0
    /\ end = 0
    /\ result = <<>>
    /\ deagErr = "none"
    /\ deagPc = "entry"
    \* No call of SplitNetwork is in progress.
    /\ networkStr = <<>> /\ maskStr = IntText(0) /\ sizes = <<>>
    /\ network = NoNetwork /\ totalHosts = 0 /\ hostCounts = <<>>
    /\ totalRequired = 0 /\ hostsNeeded = 0 /\ sizeIdx = 0 /\ currentIP = 0
    /\ subnets = <<>> /\ splitErr = "none" /\ splitPc = "idle"
    \* No other call and no run of the command is in progress.
    /\ call = "idle" /\ ret = <<>>
    /\ flags = NoFlags /\ nargs = 0 /\ handler = "ok" /\ mainPc = "idle"
    /\ output = <<>> /\ exitCode = -1

\* Lines 213-228: parse both addresses, check the range.
DeaggEntry ==
    /\ deagPc = "entry"
    /\ LET ps == ParseIPv4(startStr)
           pe == ParseIPv4(endStr)
       IN  IF ~ps.ok \/ ~pe.ok
           THEN /\ deagErr' = "address"
                /\ deagPc' = "done"
                /\ UNCHANGED <<start, end>>
           ELSE IF InvalidRange(ps.val, pe.val)
           THEN /\ deagErr' = "range"
                /\ deagPc' = "done"
                /\ UNCHANGED <<start, end>>
           ELSE /\ start' = ps.val
                /\ end' = pe.val
                /\ deagPc' = "loop"
                /\ UNCHANGED deagErr
    /\ UNCHANGED <<startStr, endStr, result, splitVars, pureVars, mainVars>>

\* Lines 230-254: one iteration of "for start <= end".
DeaggIterate ==
    /\ deagPc = "loop"
    /\ start <= end
    /\ Len(result) < MaxIter
    /\ LET prefix == PrefixLoop(0, start, end)
       IN  /\ result' = Append(result, CidrString(IPToString(start), prefix))
           /\ start' = Advance(start, prefix)
    /\ UNCHANGED <<startStr, endStr, end, deagErr, deagPc, splitVars, pureVars, mainVars>>

\* Line 256: the loop is left and the list returned.
DeaggReturn ==
    /\ deagPc = "loop"
    /\ ~(start <= end)
    /\ deagPc' = "done"
    /\ UNCHANGED <<startStr, endStr, start, end, result, deagErr, splitVars, pureVars, mainVars>>

DeaggNext == DeaggEntry \/ DeaggIterate \/ DeaggReturn

(***************************************************************************)
(* SplitNetwork.                                                           *)
(***************************************************************************)

\* Line 267: uint32(1) << (32 - uint32(network.BitCount)).
TotalHosts(bitCount) == Shl(1, Width - bitCount)

\* Line 276: the test of the doubling loop, "hostsNeeded-2 < uint32(size)".
MustDouble(h, size) == U32(h - 2) < U32(size)

\* Lines 294-298: prefix := 32; for hostCount > 1 { hostCount >>= 1; prefix-- }.
RECURSIVE PrefixOf(_, _)
PrefixOf(hostCount, prefix) ==
    IF hostCount > 1 THEN PrefixOf(Shr(hostCount, 1), prefix - 1) ELSE prefix

\* Lines 301-307: the text of the subnet at the cursor: the network id that
\* CalculateNetwork derives from the cursor's text and the prefix.
SubnetString(cur, prefix) ==
    LET subnetNetwork == CalculateNetwork(IPToString(cur), IntText(prefix))
    IN  CidrString(IPToString(subnetNetwork.NetworkID), prefix)

\* The host counts taken from the last request to the first.
AllocOrderReversed(counts) ==
    [i \in 1 .. Len(counts) |-> counts[Len(counts) + 1 - i]]

\* Line 292: the order in which the host counts are allocated.
AllocOrder(counts) == counts

\* Requested sizes: 0, small counts, the largest count a block of half the
\* space serves and the one above it, negative ints, and an int above 2^Width.
SizeValues ==
    {-2, -1, 0, 2, 3, Pow2(Width - 1) - 2, Pow2(Width - 1) - 1, Modulus + 1}

RECURSIVE SeqsUpTo(_, _)
SeqsUpTo(S, n) ==
    IF n = 0 THEN {<<>>}
    ELSE LET shorter == SeqsUpTo(S, n - 1)
         IN  shorter \cup {Append(q, x) : q \in shorter, x \in S}

SizeLists == SeqsUpTo(SizeValues, MaxReq)

BaseTexts ==
    {IPToString(a) :
        a \in {0, 1, Pow2(Width - 1), Pow2(Width - 1) + Pow2(Width - 2) + 1,
               MaxAddr}}
    \cup {BadText}

MaskTexts == {IntText(n) : n \in -1 .. Width + 1}

SplitInit ==
    /\ networkStr \in BaseTexts
    /\ maskStr \in MaskTexts
    /\ sizes \in SizeLists
    /\ network = NoNetwork
    /\ totalHosts = 0
    /\ hostCounts = <<>>
    /\ totalRequired = 0
    /\ hostsNeeded = 0
    /\ sizeIdx = 0
    /\ currentIP = 0
    /\ subnets = <<>>
    /\ splitErr = "none"
    /\ splitPc = "entry"
    \* No call of Deaggregate is in progress.
    /\ startStr = <<>> /\ endStr = <<>> /\ start = 0 /\ end = 0
    /\ result = <<>> /\ deagErr = "none" /\ deagPc = "idle"
    \* No other call and no run of the command is in progress.
    /\ call = "idle" /\ ret = <<>>
    /\ flags = NoFlags /\ nargs = 0 /\ handler = "ok" /\ mainPc = "idle"
    /\ output = <<>> /\ exitCode = -1

\* Lines 261-271: derive the base network and its address count.
SplitEntry ==
    /\ splitPc = "entry"
    /\ LET n == CalculateNetwork(networkStr, maskStr)
       IN  IF ~n.ok
           THEN /\ splitErr' = "network"
                /\ splitPc' = "done"
                /\ UNCHANGED <<network, totalHosts, sizeIdx>>
           ELSE /\ network' = n
                /\ totalHosts' = TotalHosts(n.BitCount)
                /\ sizeIdx' = 1
                /\ splitPc' = "size"
                /\ UNCHANGED splitErr
    /\ UNCHANGED <<networkStr, maskStr, sizes, hostCounts, totalRequired,
                   hostsNeeded, currentIP, subnets, deagVars, pureVars, mainVars>>

\* Lines 273-275: the next requested size; hostsNeeded starts at 4.
SplitNextSize ==
    /\ splitPc = "size"
    /\ sizeIdx <= Len(sizes)
    /\ hostsNeeded' = 4
    /\ splitPc' = "double"
    /\ UNCHANGED <<networkStr, maskStr, sizes, network, totalHosts, hostCounts,
                   totalRequired, sizeIdx, currentIP, subnets, splitErr, deagVars,
                   pureVars, mainVars>>

\* Lines 276-278: one doubling of hostsNeeded.
SplitDouble ==
    /\ splitPc = "double"
    /\ MustDouble(hostsNeeded, sizes[sizeIdx])
    /\ hostsNeeded' = U32(hostsNeeded * 2)
    /\ UNCHANGED <<networkStr, maskStr, sizes, network, totalHosts, hostCounts,
                   totalRequired, sizeIdx, currentIP, subnets, splitErr, splitPc,
                   deagVars, pureVars, mainVars>>

\* Lines 280-281: the doubling loop is left; record and sum the host count.
SplitRecord ==
    /\ splitPc = "double"
    /\ ~MustDouble(hostsNeeded, sizes[sizeIdx])
    /\ hostCounts' = Append(hostCounts, hostsNeeded)
    /\ totalRequired' = U32(totalRequired + hostsNeeded)
    /\ sizeIdx' = sizeIdx + 1
    /\ splitPc' = "size"
    /\ UNCHANGED <<networkStr, maskStr, sizes, network, totalHosts, hostsNeeded,
                   currentIP, subnets, splitErr, deagVars, pureVars, mainVars>>

\* Lines 284-290: the capacity check, then the cursor starts at the network id.
SplitCheck ==
    /\ splitPc = "size"
    /\ sizeIdx > Len(sizes)
    /\ IF totalRequired > totalHosts
       THEN /\ splitErr' = "capacity"
            /\ splitPc' = "done"
            /\ UNCHANGED <<currentIP, sizeIdx>>
       ELSE /\ currentIP' = network.NetworkID
            /\ sizeIdx' = 1
            /\ splitPc' = "alloc"
            /\ UNCHANGED splitErr
    /\ UNCHANGED <<networkStr, maskStr, sizes, network, totalHosts, hostCounts,
                   totalRequired, hostsNeeded, subnets, deagVars, pureVars, mainVars>>

\* Lines 292-311: allocate the subnet of the next host count at the cursor.
SplitAllocate ==
    /\ splitPc = "alloc"
    /\ sizeIdx <= Len(hostCounts)
    /\ LET prefix == PrefixOf(AllocOrder(hostCounts)[sizeIdx], Width)
       IN  /\ subnets' = Append(subnets, SubnetString(currentIP, prefix))
           /\ currentIP' = U32(currentIP + Shl(1, Width - prefix))
    /\ sizeIdx' = sizeIdx + 1
    /\ UNCHANGED <<networkStr, maskStr, sizes, network, totalHosts, hostCounts,
                   totalRequired, hostsNeeded, splitErr, splitPc, deagVars, pureVars, mainVars>>

\* Line 313: every host count is allocated; the list is returned.
SplitReturn ==
    /\ splitPc = "alloc"
    /\ sizeIdx > Len(hostCounts)
    /\ splitPc' = "done"
    /\ UNCHANGED <<networkStr, maskStr, sizes, network, totalHosts, hostCounts,
                   totalRequired, hostsNeeded, sizeIdx, currentIP, subnets,
                   splitErr, deagVars, pureVars, mainVars>>

SplitNext ==
    \/ SplitEntry
    \/ SplitNextSize
    \/ SplitDouble
    \/ SplitRecord
    \/ SplitCheck
    \/ SplitAllocate
    \/ SplitReturn

(***************************************************************************)
(* One call of a loop-free function of the calculator.  call names the     *)
(* function ("none" before the call), ret holds its arguments and what it  *)
(* returned.                                                               *)
(***************************************************************************)

\* Every dotted-quad text of an address, and one that does not parse.
AddrTexts == {IPToString(a) : a \in Addr} \cup {BadText}

\* Netmask arguments: bit counts, dotted-quad texts, a text that is neither,
\* each also behind one slash, and a bit count behind two.
MaskArgs ==
    LET plain == {IntText(n) : n \in -1 .. Width + 1}
                 \cup {DottedText(t) : t \in AddrTexts} \cup {JunkText}
    IN  plain \cup {SlashText(t) : t \in plain}
        \cup {SlashText(SlashText(IntText(Width)))}

\* IPv6 address arguments: the text of every address as IPv6ToString writes
\* it, some uncompressed texts, and texts that net.ParseIP refuses.
V6Texts ==
    {IPv6ToString(m) : m \in V6Addr}
    \cup {GroupsOf(m) : m \in {0, 1, MappedPrefix, V6Modulus - 1}}
    \cup {<<Ellipsis, Ellipsis>>, <<Ellipsis>> \o GroupsOf(1), <<>>, BadText,
          [GroupsOf(0) EXCEPT ![1] = GroupLimit(1)]}

\* IPv6 prefix arguments.
PrefixArgs ==
    LET plain == {IntText(n) : n \in -1 .. V6Width + 1}
                 \cup {DottedText(IPToString(MaxAddr)), JunkText}
    IN  plain \cup {SlashText(t) : t \in plain}
        \cup {SlashText(SlashText(IntText(V6Width)))}

CalcInit ==
    /\ call = "none"
    /\ ret = <<>>
    \* No call of Deaggregate or SplitNetwork and no run of the command is
    \* in progress.
    /\ startStr = <<>> /\ endStr = <<>> /\ start = 0 /\ end = 0
    /\ result = <<>> /\ deagErr = "none" /\ deagPc = "idle"
    /\ networkStr = <<>> /\ maskStr = IntText(0) /\ sizes = <<>>
    /\ network = NoNetwork /\ totalHosts = 0 /\ hostCounts = <<>>
    /\ totalRequired = 0 /\ hostsNeeded = 0 /\ sizeIdx = 0 /\ currentIP = 0
    /\ subnets = <<>> /\ splitErr = "none" /\ splitPc = "idle"
    /\ flags = NoFlags /\ nargs = 0 /\ handler = "ok" /\ mainPc = "idle"
    /\ output = <<>> /\ exitCode = -1

CallParseNetmask ==
    /\ call = "none"
    /\ \E m \in MaskArgs :
         /\ call' = "ParseNetmask"
         /\ ret' = [maskStr |-> m, out |-> ParseNetmask(m)]
    /\ UNCHANGED <<deagVars, splitVars, mainVars>>

CallCalculateNetwork ==
    /\ call = "none"
    /\ \E t \in AddrTexts, m \in MaskArgs :
         /\ call' = "CalculateNetwork"
         /\ ret' = [ipStr |-> t, maskStr |-> m, out |-> CalculateNetwork(t, m)]
    /\ UNCHANGED <<deagVars, splitVars, mainVars>>

CallGetClass ==
    /\ call = "none"
    /\ \E a \in Addr :
         /\ call' = "GetClass"
         /\ ret' = [ip |-> a, out |-> GetClass(a)]
    /\ UNCHANGED <<deagVars, splitVars, mainVars>>

CallGetWildcardMask ==
    /\ call = "none"
    /\ \E a \in Addr :
         /\ call' = "GetWildcardMask"
         /\ ret' = [netmask |-> a, out |-> GetWildcardMask(a)]
    /\ UNCHANGED <<deagVars, splitVars, mainVars>>

\* IPToString(ip), and ParseIPv4 of the text it returned.
CallIPToString ==
    /\ call = "none"
    /\ \E a \in Addr :
         /\ call' = "IPToString"
         /\ ret' = [ip |-> a, out |-> IPToString(a),
                    parsed |-> ParseIPv4(IPToString(a))]
    /\ UNCHANGED <<deagVars, splitVars, mainVars>>

\* ParseIPv4(ipStr), and when it succeeded the text IPToString writes for the
\* value and ParseIPv4 of that text.
CallParseIPv4 ==
    /\ call = "none"
    /\ \E t \in AddrTexts \cup V6Texts :
         LET out == ParseIPv4(t)
         IN  /\ call' = "ParseIPv4"
             /\ ret' = [ipStr |-> t, out |-> out,
                        text |-> IF out.ok THEN IPToString(out.val) ELSE <<>>,
                        parsed |-> IF out.ok THEN ParseIPv4(IPToString(out.val))
                                   ELSE out]
    /\ UNCHANGED <<deagVars, splitVars, mainVars>>

\* IPv6ToString(ip), and ParseIPv6 of the text it returned.
CallIPv6ToString ==
    /\ call = "none"
    /\ \E m \in V6Addr :
         /\ call' = "IPv6ToString"
         /\ ret' = [ip |-> m, out |-> IPv6ToString(m),
                    parsed |-> ParseIPv6(IPv6ToString(m))]
    /\ UNCHANGED <<deagVars, splitVars, mainVars>>

\* ParseIPv6(ipStr), and when it succeeded the text IPv6ToString writes for
\* the value and ParseIPv6 of that text.
CallParseIPv6 ==
    /\ call = "none"
    /\ \E t \in V6Texts :
         LET out == ParseIPv6(t)
         IN  /\ call' = "ParseIPv6"
             /\ ret' = [ipStr |-> t, out |-> out,
                        text |-> IF out.ok THEN IPv6ToString(out.val) ELSE <<>>,
                        parsed |-> IF out.ok THEN ParseIPv6(IPv6ToString(out.val))
                                   ELSE out]
    /\ UNCHANGED <<deagVars, splitVars, mainVars>>

CallParseIPv6Prefix ==
    /\ call = "none"
    /\ \E q \in PrefixArgs :
         /\ call' = "ParseIPv6Prefix"
         /\ ret' = [prefixStr |-> q, out |-> ParseIPv6Prefix(q)]
    /\ UNCHANGED <<deagVars, splitVars, mainVars>>

CallIPv6ToNetworkID ==
    /\ call = "none"
    /\ \E m \in V6Addr, q \in -1 .. V6Width + 1 :
         /\ call' = "IPv6ToNetworkID"
         /\ ret' = [ip |-> m, prefixLen |-> q, out |-> IPv6ToNetworkID(m, q)]
    /\ UNCHANGED <<deagVars, splitVars, mainVars>>

CallCalculateIPv6Network ==
    /\ call = "none"
    /\ \E t \in V6Texts, q \in PrefixArgs :
         /\ call' = "CalculateIPv6Network"
         /\ ret' = [ipStr |-> t, prefixStr |-> q,
                    out |-> CalculateIPv6Network(t, q)]
    /\ UNCHANGED <<deagVars, splitVars, mainVars>>

CalcNext ==
    \/ CallParseNetmask
    \/ CallCalculateNetwork
    \/ CallGetClass
    \/ CallGetWildcardMask
    \/ CallIPToString
    \/ CallParseIPv4
    \/ CallIPv6ToString
    \/ CallParseIPv6
    \/ CallParseIPv6Prefix
    \/ CallIPv6ToNetworkID
    \/ CallCalculateIPv6Network

(***************************************************************************)
(* One run of the command (cmd/ipcalc/main.go).  flags are the parsed      *)
(* flags, nargs the number of positional arguments, handler whether the    *)
(* calculation of the selected mode succeeds ("ok") or reports an error    *)
(* ("error"); output is what has been printed so far, exitCode the status  *)
(* of os.Exit (-1 while the process runs).                                 *)
(***************************************************************************)

MaxArgs == 3

FlagSets ==
    [help : BOOLEAN, showVersion : BOOLEAN, html : BOOLEAN,
     classOnly : BOOLEAN, deaggregate : BOOLEAN, split : BOOLEAN]

MainInit ==
    /\ flags \in FlagSets
    /\ nargs \in 0 .. MaxArgs
    /\ handler \in {"ok", "error"}
    /\ mainPc = "help"
    /\ output = <<>>
    /\ exitCode = -1
    \* No call of the calculator is in progress.
    /\ startStr = <<>> /\ endStr = <<>> /\ start = 0 /\ end = 0
    /\ result = <<>> /\ deagErr = "none" /\ deagPc = "idle"
    /\ networkStr = <<>> /\ maskStr = IntText(0) /\ sizes = <<>>
    /\ network = NoNetwork /\ totalHosts = 0 /\ hostCounts = <<>>
    /\ totalRequired = 0 /\ hostsNeeded = 0 /\ sizeIdx = 0 /\ currentIP = 0
    /\ subnets = <<>> /\ splitErr = "none" /\ splitPc = "idle"
    /\ call = "idle" /\ ret = <<>>

\* Print the items, then os.Exit(code).
Exit(items, code) ==
    /\ output' = output \o items
    /\ exitCode' = code
    /\ mainPc' = "exited"

\* Print the items and go on at the next statement.
Goto(items, pc) ==
    /\ output' = output \o items
    /\ mainPc' = pc
    /\ UNCHANGED exitCode

\* The handler of a mode that exits: the error on stderr and os.Exit(1), or
\* the result and os.Exit(0) after the handler returned.
RunHandler(printed) ==
    IF handler = "error" THEN Exit(<<"error">>, 1) ELSE Exit(<<printed>>, 0)

\* Lines 33-37: if *help || len(args) == 0 { printUsage(); os.Exit(0) }
MainCheckHelp ==
    /\ mainPc = "help"
    /\ IF flags.help \/ nargs = 0
       THEN Exit(<<"usage">>, 0)
       ELSE Goto(<<>>, "version")
    /\ UNCHANGED <<flags, nargs, handler, deagVars, splitVars, pureVars>>

\* Lines 39-43: if *showVersion { print the version line; os.Exit(0) }
MainCheckVersion ==
    /\ mainPc = "version"
    /\ IF flags.showVersion
       THEN Exit(<<"version">>, 0)
       ELSE Goto(<<>>, "header")
    /\ UNCHANGED <<flags, nargs, handler, deagVars, splitVars, pureVars>>

\* Lines 45-56: the HTML header when format.UseHTML.
MainHeader ==
    /\ mainPc = "header"
    /\ Goto(IF flags.html THEN <<"header">> ELSE <<>>, "mode")
    /\ UNCHANGED <<flags, nargs, handler, deagVars, splitVars, pureVars>>

\* Lines 58-62: class-only mode.
MainClassOnly ==
    /\ mainPc = "mode"
    /\ flags.classOnly /\ nargs > 0
    /\ RunHandler("class")
    /\ UNCHANGED <<flags, nargs, handler, deagVars, splitVars, pureVars>>

\* Lines 64-72: deaggregate mode.
MainDeaggregate ==
    /\ mainPc = "mode"
    /\ ~(flags.classOnly /\ nargs > 0)
    /\ flags.deaggregate
    /\ IF nargs < 2 THEN Exit(<<"error">>, 1) ELSE RunHandler("blocks")
    /\ UNCHANGED <<flags, nargs, handler, deagVars, splitVars, pureVars>>

\* Lines 74-82: split mode.
MainSplit ==
    /\ mainPc = "mode"
    /\ ~(flags.classOnly /\ nargs > 0)
    /\ ~flags.deaggregate
    /\ flags.split
    /\ IF nargs < 2 THEN Exit(<<"error">>, 1) ELSE RunHandler("subnets")
    /\ UNCHANGED <<flags, nargs, handler, deagVars, splitVars, pureVars>>

\* Lines 84-87: normal mode; handleNormal exits on an error and returns
\* otherwise.
MainNormal ==
    /\ mainPc = "mode"
    /\ ~(flags.classOnly /\ nargs > 0)
    /\ ~flags.deaggregate
    /\ ~flags.split
    /\ IF nargs > 0
       THEN IF handler = "error" THEN Exit(<<"error">>, 1)
            ELSE Goto(<<"network">>, "footer")
       ELSE Goto(<<>>, "footer")
    /\ UNCHANGED <<flags, nargs, handler, deagVars, splitVars, pureVars>>

\* Lines 89-93: the HTML footer when format.UseHTML, then main returns.
MainFooter ==
    /\ mainPc = "footer"
    /\ Exit(IF flags.html THEN <<"footer">> ELSE <<>>, 0)
    /\ UNCHANGED <<flags, nargs, handler, deagVars, splitVars, pureVars>>

MainNext ==
    \/ MainCheckHelp
    \/ MainCheckVersion
    \/ MainHeader
    \/ MainClassOnly
    \/ MainDeaggregate
    \/ MainSplit
    \/ MainNormal
    \/ MainFooter

(***************************************************************************)
(* Specifications: one call of Deaggregate, of SplitNetwork or of a        *)
(* loop-free function, one run of the command, and any of them.            *)
(***************************************************************************)

DeaggSpec == DeaggInit /\ [][DeaggNext]_vars

SplitSpec == SplitInit /\ [][SplitNext]_vars

\* Lines 273-286 of SplitNetwork: the loop over the requested sizes with its
\* doubling loop, and the capacity check that follows it.
SplitSizing ==
    \/ SplitNextSize
    \/ SplitDouble
    \/ SplitRecord
    \/ SplitCheck

\* The call of SplitNetwork runs on: while it is in the loop over the
\* requested sizes, a goroutine that can execute its next statement does
\* execute it.
SplitLiveSpec == SplitInit /\ [][SplitNext]_vars /\ WF_vars(SplitSizing)

CalcSpec == CalcInit /\ [][CalcNext]_vars

MainSpec == MainInit /\ [][MainNext]_vars

Init == DeaggInit \/ SplitInit \/ CalcInit \/ MainInit

Next == DeaggNext \/ SplitNext \/ CalcNext \/ MainNext

Spec == Init /\ [][Next]_vars

(***************************************************************************)
(* Vocabulary of the properties.  Sizes and ends of blocks are computed on *)
(* the unbounded integers, never wrapped.                                  *)
(***************************************************************************)

\* The numeric range a CIDR text denotes.
BlockBase(b) == ParseIPv4(b.ip).val
BlockSize(b) == Pow2(Width - b.prefix)
BlockLast(b) == BlockBase(b) + BlockSize(b) - 1
BlocksOverlap(b, c) == BlockBase(b) <= BlockLast(c) /\ BlockBase(c) <= BlockLast(b)

\* Deaggregate was called with two valid addresses, start <= end.
Start0 == ParseIPv4(startStr).val
End0 == ParseIPv4(endStr).val
DeaggValid ==
    /\ deagPc \in {"loop", "done"}
    /\ ParseIPv4(startStr).ok
    /\ ParseIPv4(endStr).ok
DeaggInRange == DeaggValid /\ Start0 <= End0

\* The aligned blocks that start at lo and end at or before hi, by prefix.
FittingPrefixes(lo, hi) ==
    {p \in 0 .. Width : lo % Pow2(Width - p) = 0 /\ lo + Pow2(Width - p) - 1 <= hi}

SetMin(S) == CHOOSE x \in S : \A y \in S : x <= y

\* The length of a shortest list of aligned blocks whose union is [lo, hi]:
\* the table T[a] of the shortest cover of [a, hi], filled from hi down.
RECURSIVE CoverTable(_, _, _, _)
CoverTable(a, lo, hi, T) ==
    IF a < lo THEN T
    ELSE CoverTable(a - 1, lo, hi,
            (a :> 1 + SetMin({T[a + Pow2(Width - p)] : p \in FittingPrefixes(a, hi)}))
            @@ T)

ShortestCover(lo, hi) == CoverTable(hi, lo, hi, (hi + 1) :> 0)[lo]

\* C1: the blocks Deaggregate emits for start <= end partition [start, end]:
\* each is aligned to its size and lies inside the range, no two overlap,
\* and the returned list covers every address of the range.
C1_ExactPartition ==
    DeaggInRange =>
        /\ \A i \in 1 .. Len(result) :
              /\ BlockBase(result[i]) % BlockSize(result[i]) = 0
              /\ Start0 <= BlockBase(result[i])
              /\ BlockLast(result[i]) <= End0
        /\ \A i, j \in 1 .. Len(result) :
              i < j => ~BlocksOverlap(result[i], result[j])
        /\ deagPc = "done" =>
              \A a \in Start0 .. End0 :
                  \E i \in 1 .. Len(result) :
                      BlockBase(result[i]) <= a /\ a <= BlockLast(result[i])

\* C2: the blocks are emitted in strictly ascending address order, each the
\* largest aligned block at its base that does not pass end, and the
\* returned list is a shortest cover of [start, end].
C2_ShortestAscending ==
    DeaggInRange =>
        /\ \A i \in 1 .. Len(result) - 1 :
              BlockBase(result[i]) < BlockBase(result[i + 1])
        /\ \A i \in 1 .. Len(result) :
              /\ result[i].prefix \in FittingPrefixes(BlockBase(result[i]), End0)
              /\ result[i].prefix = SetMin(FittingPrefixes(BlockBase(result[i]), End0))
        /\ deagPc = "done" => Len(result) = ShortestCover(Start0, End0)

\* C3: for start = end = a the list built is never more than [a/32], and
\* the list returned is exactly [a/32].
C3_SingleAddress ==
    (DeaggValid /\ Start0 = End0) =>
        /\ Len(result) <= 1
        /\ deagPc = "done" =>
              /\ deagErr = "none"
              /\ result = <<CidrString(startStr, Width)>>

\* C4: every iteration of the loop "for start <= end" moves start strictly
\* upwards, so that start passes end after finitely many iterations.
C4_LoopAdvances ==
    [][(deagPc = "loop" /\ result' # result) => start' > start]_vars

\* C5: with two valid addresses Deaggregate fails with the range error
\* exactly when start > end, and then returns no block.
C5_InvalidRange ==
    (deagPc \in {"loop", "done"} /\ ParseIPv4(startStr).ok /\ ParseIPv4(endStr).ok) =>
        /\ (deagErr = "range") <=> (Start0 > End0)
        /\ deagErr = "range" => (result = <<>> /\ deagPc = "done")

C5_Witness ==
    /\ deagPc = "done"
    /\ deagErr = "range"
    /\ Start0 > End0
    /\ ParseIPv4(startStr).ok /\ ParseIPv4(endStr).ok

\* Below the highest address the loop behaves as described: for every
\* end < MaxAddr the emitted blocks partition [start, end], ascend, are
\* greedy-maximal and shortest, and start moves strictly upwards.
DeaggBelowTop ==
    (DeaggInRange /\ End0 < MaxAddr) =>
        /\ C1_ExactPartition
        /\ C2_ShortestAscending
        /\ (Start0 = End0 => C3_SingleAddress)
        /\ Len(result) < MaxIter

\* SplitNetwork returned a list / returned at all with a valid base network.
SplitSucceeded == splitPc = "done" /\ splitErr = "none"
SplitDecided == splitPc = "done" /\ splitErr # "network"

\* The block size the specification gives a request for n usable hosts: the
\* smallest power of two h >= 4 with h - 2 >= n, on the integers.
RECURSIVE RoundFrom(_, _)
RoundFrom(h, n) == IF h - 2 >= n THEN h ELSE RoundFrom(2 * h, n)
RoundedSize(n) == RoundFrom(4, n)

RECURSIVE SumOf(_)
SumOf(q) == IF q = <<>> THEN 0 ELSE q[1] + SumOf(Tail(q))

\* C6: the subnets SplitNetwork returns are pairwise disjoint.
C6_Disjoint ==
    SplitSucceeded =>
        \A i, j \in 1 .. Len(subnets) :
            i < j => ~BlocksOverlap(subnets[i], subnets[j])

\* C7: every subnet SplitNetwork returns lies inside the base network's
\* range [networkId, broadcast].
C7_InsideBase ==
    SplitSucceeded =>
        \A i \in 1 .. Len(subnets) :
            /\ network.NetworkID <= BlockBase(subnets[i])
            /\ BlockLast(subnets[i]) <= network.Broadcast

\* C8: the subnet allocated for a requested count n has the smallest
\* power-of-two size h >= 4 with h - 2 >= n (and prefix 32 - log2(h)), so
\* its usable capacity h - 2 is never below n.
C8_RoundedCapacity ==
    SplitSucceeded =>
        \A i \in 1 .. Len(subnets) :
            /\ i <= Len(sizes)
            /\ BlockSize(subnets[i]) = RoundedSize(sizes[i])
            /\ BlockSize(subnets[i]) - 2 >= sizes[i]

\* C9: with a valid base network SplitNetwork fails with the capacity error
\* exactly when the rounded sizes sum to more than 2^(32 - prefixLen), and
\* then returns no subnet.
C9_CapacityExact ==
    SplitDecided =>
        /\ (splitErr = "capacity") <=>
              (SumOf([i \in 1 .. Len(sizes) |-> RoundedSize(sizes[i])])
                  > Pow2(Width - network.BitCount))
        /\ splitErr = "capacity" => subnets = <<>>

\* The size of the block the code allocates for a request n: the rounded
\* size of uint32(n) while that is at most half the address space, and one
\* address once the doubling has wrapped hostsNeeded to 0.
AllocatedSize(n) ==
    IF U32(n) <= Pow2(Width - 1) - 2 THEN RoundedSize(U32(n)) ELSE 1

\* C10: the returned list has one block per request, and the i-th block is
\* the one sized for the i-th request.
C10_OnePerRequestInOrder ==
    SplitSucceeded =>
        /\ Len(subnets) = Len(sizes)
        /\ \A i \in 1 .. Len(subnets) :
              BlockSize(subnets[i]) = AllocatedSize(sizes[i])

C10_Witness ==
    /\ SplitSucceeded
    /\ Len(sizes) >= 2
    /\ Len(subnets) = Len(sizes)
    /\ BlockSize(subnets[1]) < BlockSize(subnets[2])

\* The address spans of the first k returned subnets, summed on the integers.
RECURSIVE SpanBefore(_)
SpanBefore(k) == IF k = 0 THEN 0 ELSE SpanBefore(k - 1) + BlockSize(subnets[k])

\* C21: when SplitNetwork succeeds, the base address of the i-th returned
\* subnet is the allocation cursor at that point: the base network's network
\* id plus the address spans of the subnets returned before it, never
\* re-aligned to the subnet's own size.
C21_BaseIsCursor ==
    SplitSucceeded =>
        \A i \in 1 .. Len(subnets) :
            BlockBase(subnets[i]) = network.NetworkID + SpanBefore(i - 1)

\* C22: SplitNetwork terminates for every valid base network and every list
\* of integer sizes: for each requested size the doubling loop ends after
\* finitely many doublings, also for negative sizes and sizes where
\* hostsNeeded wraps to 0, so that the loop over the sizes is left (for the
\* capacity error or the allocation).
C22_Terminates ==
    (splitPc \in {"size", "double"}) ~> (splitPc \in {"alloc", "done"})

\* The doubling loop stops making progress only with hostsNeeded wrapped to
\* 0 and a size that converts to the highest unsigned value (-1, 2^32 - 1).
DoublingStuckOnlyAtTop ==
    (/\ splitPc = "double"
     /\ MustDouble(hostsNeeded, sizes[sizeIdx])
     /\ U32(hostsNeeded * 2) = hostsNeeded)
    => hostsNeeded = 0 /\ U32(sizes[sizeIdx]) = MaxAddr


(***************************************************************************)
(* Vocabulary of the properties of the loop-free functions.  Bits, masks   *)
(* and values of texts are computed on the unbounded integers.             *)
(***************************************************************************)

\* Bit i of x, bit 0 the least significant.
Bit(x, i) == (x \div Pow2(i)) % 2

\* The w-bit pattern of p ones followed by w - p zeros.
LeadingOnes(p, w) == Pow2(w) - Pow2(w - p)

\* A dotted-quad text with every field in range, and the address it writes.
ValidDotted(t) == Len(t) = 4 /\ \A i \in 1 .. 4 : t[i] \in 0 .. OctetLimit(i) - 1
TextValue(t) ==
    t[1] * Pow2(OctetShift(1)) + t[2] * Pow2(OctetShift(2))
    + t[3] * Pow2(OctetShift(3)) + t[4]

\* CalculateNetwork was called and returned a Network.
CalcDone == call = "CalculateNetwork" /\ ret.out.ok

\* C11: for every valid address and every prefix length 0..32,
\* CalculateNetwork returns a Network whose network id is address AND mask,
\* whose broadcast is network id OR wildcard(mask) and whose network id AND
\* wildcard(mask) is 0, wildcard(mask) being the complement of the mask.
C11_MaskAlgebra ==
    /\ (/\ call = "CalculateNetwork"
        /\ ValidDotted(ret.ipStr)
        /\ \E q \in 0 .. Width : ret.maskStr = IntText(q))
       => ret.out.ok
    /\ CalcDone =>
         LET n == ret.out
             wildcard == GetWildcardMask(n.Netmask)
         IN  /\ n.Address = TextValue(ret.ipStr)
             /\ n.BitCount \in 0 .. Width
             /\ n.Netmask = LeadingOnes(n.BitCount, Width)
             /\ {n.NetworkID, n.Broadcast, wildcard} \subseteq Addr
             /\ \A i \in 0 .. Width - 1 :
                  /\ Bit(wildcard, i) = 1 - Bit(n.Netmask, i)
                  /\ Bit(n.NetworkID, i) = Bit(n.Address, i) * Bit(n.Netmask, i)
                  /\ Bit(n.Broadcast, i)
                       = (IF Bit(n.NetworkID, i) = 1 \/ Bit(wildcard, i) = 1
                          THEN 1 ELSE 0)
                  /\ Bit(n.NetworkID, i) * Bit(wildcard, i) = 0

\* A Network of a prefix strictly inside 0..32 whose address has host bits.
C11_Witness ==
    /\ CalcDone
    /\ ret.out.BitCount \in 1 .. Width - 1
    /\ ret.out.NetworkID # 0
    /\ ret.out.NetworkID # ret.out.Address
    /\ ret.out.Broadcast # MaxAddr

\* C12: CalculateNetwork derives the host fields by prefix length: for 0..30
\* hostMin = networkId + 1, hostMax = broadcast - 1, hostCount =
\* 2^(32 - prefix) - 2 (2^32 - 2 for prefix 0); for 31 hostMin = networkId,
\* hostMax = broadcast, hostCount = 2; for 32 hostMin = hostMax = networkId,
\* hostCount = 1.
C12_HostFields ==
    CalcDone =>
      LET n == ret.out
      IN  /\ n.BitCount \in 0 .. Width - 2 =>
                /\ n.HostMin = n.NetworkID + 1
                /\ n.HostMax = n.Broadcast - 1
                /\ n.HostsCount = Pow2(Width - n.BitCount) - 2
          /\ n.BitCount = Width - 1 =>
                /\ n.HostMin = n.NetworkID
                /\ n.HostMax = n.Broadcast
                /\ n.HostsCount = 2
          /\ n.BitCount = Width =>
                /\ n.HostMin = n.NetworkID
                /\ n.HostMax = n.NetworkID
                /\ n.HostsCount = 1

\* The Network of prefix 0, with every address but two as hosts.
C12_Witness ==
    /\ CalcDone
    /\ ret.out.BitCount = 0
    /\ ret.out.HostsCount = Modulus - 2

\* C13: every Network returned by CalculateNetwork has
\* networkId <= address <= broadcast.
C13_AddressBetween ==
    CalcDone =>
      /\ ret.out.NetworkID <= ret.out.Address
      /\ ret.out.Address <= ret.out.Broadcast

\* A Network whose address is strictly between network id and broadcast.
C13_Witness ==
    /\ CalcDone
    /\ ret.out.NetworkID < ret.out.Address
    /\ ret.out.Address < ret.out.Broadcast

\* The argument of ParseNetmask or ParseIPv6Prefix with one leading slash
\* removed.
ArgText(m) == IF m.kind = "slash" THEN m.rest ELSE m

\* The number of 1 bits of a Width-bit pattern.
PopCount(v) == Cardinality({i \in 0 .. Width - 1 : Bit(v, i) = 1})

C15_PrefixRange ==
    /\ (call = "ParseNetmask" /\ ArgText(ret.maskStr).kind = "int")
       => LET q == ArgText(ret.maskStr).n
              out == ret.out
          IN  /\ out.ok <=> (0 <= q /\ q <= Width)
              /\ out.ok => out.bitCount = q /\ out.mask = LeadingOnes(q, Width)
                           /\ out.err = "none"
              /\ ~out.ok => out.err = "invalid bit count" /\ out.mask = 0
    /\ (call = "ParseIPv6Prefix" /\ ArgText(ret.prefixStr).kind = "int")
       => LET q == ArgText(ret.prefixStr).n
          IN  /\ ret.out.ok <=> (0 <= q /\ q <= V6Width)
              /\ ret.out.ok => ret.out.val = q
    /\ (/\ call = "CalculateIPv6Network"
        /\ ArgText(ret.prefixStr).kind = "int")
       => LET q == ArgText(ret.prefixStr).n
          IN  /\ ret.out.ok => /\ 0 <= q /\ q <= V6Width
                               /\ ret.out.PrefixLen = q
                               /\ ret.out.NetworkMask = LeadingOnes(q, V6Width)
              /\ ~ret.out.ok => ret.out.NetworkMask = 0

\* "/32": the all-one mask, from a bit count behind a slash.
C15_Witness ==
    /\ call = "ParseNetmask"
    /\ ret.maskStr = SlashText(IntText(Width))
    /\ ret.out.ok
    /\ ret.out.mask = MaxAddr

\* The first k bits of a Width-bit address.
TopBits(ip, k) == ip \div Pow2(Width - k)

\* The class the top bits determine: 0, 10, 110, 1110, 1111.
ClassByTopBits(ip) ==
    CASE TopBits(ip, 1) = 0 -> "A"
      [] TopBits(ip, 2) = 2 -> "B"
      [] TopBits(ip, 3) = 6 -> "C"
      [] TopBits(ip, 4) = 14 -> "D"
      [] TopBits(ip, 4) = 15 -> "E"

\* C16: GetClass gives every address the one class its top bits determine
\* (A for 0, B for 10, C for 110, D for 1110, E for 1111), and the class
\* CalculateNetwork stores is the class of the input address, not of the
\* network id.
C16_ClassByTopBits ==
    /\ call = "GetClass" => ret.out = ClassByTopBits(ret.ip)
    /\ CalcDone => ret.out.Class = ClassByTopBits(TextValue(ret.ipStr))

\* A Network whose address and network id are of different classes.
C16_Witness ==
    /\ CalcDone
    /\ ClassByTopBits(ret.out.Address) # ClassByTopBits(ret.out.NetworkID)
    /\ ret.out.Class = ClassByTopBits(ret.out.Address)

\* The texts IPv6ToString writes.
V6Written == {IPv6ToString(m) : m \in V6Addr}

\* C17: ParseIPv6, and therefore CalculateIPv6Network, fails with the
\* invalid-address error for every IPv4 dotted-quad text.
C17_RejectsIPv4Text ==
    /\ (call = "ParseIPv6" /\ ValidDotted(ret.ipStr)) => ~ret.out.ok
    /\ (call = "CalculateIPv6Network" /\ ValidDotted(ret.ipStr)) => ~ret.out.ok

\* C18: for every address and every prefix length p in 0..128,
\* CalculateIPv6Network returns mask = p leading 1 bits and networkId =
\* address AND mask, so networkId <= address and the low 128 - p bits of
\* networkId are 0; IPv6ToNetworkID(address, p) returns the same networkId.
C18_V6Network ==
    /\ (/\ call = "CalculateIPv6Network"
        /\ ret.ipStr \in V6Written
        /\ \E q \in 0 .. V6Width : ret.prefixStr = IntText(q))
       => ret.out.ok
    /\ (call = "CalculateIPv6Network" /\ ret.out.ok)
       => LET n == ret.out
              q == n.PrefixLen
          IN  /\ q \in 0 .. V6Width
              /\ n.Address \in V6Addr
              /\ n.NetworkMask = LeadingOnes(q, V6Width)
              /\ \A i \in 0 .. V6Width - 1 :
                   Bit(n.NetworkID, i) = Bit(n.Address, i) * Bit(n.NetworkMask, i)
              /\ n.NetworkID <= n.Address
              /\ n.NetworkID % Pow2(V6Width - q) = 0
              /\ n.NetworkID = (n.Address \div Pow2(V6Width - q)) * Pow2(V6Width - q)
    /\ (call = "IPv6ToNetworkID" /\ ret.prefixLen \in 0 .. V6Width)
       => /\ ret.out.ok
          /\ ret.out.val = (ret.ip \div Pow2(V6Width - ret.prefixLen))
                           * Pow2(V6Width - ret.prefixLen)

\* An IPv6 network of a prefix strictly inside 0..128 whose address has host
\* bits.
C18_Witness ==
    /\ call = "CalculateIPv6Network"
    /\ ret.out.ok
    /\ ret.out.PrefixLen \in 1 .. V6Width - 1
    /\ ret.out.NetworkID # 0
    /\ ret.out.NetworkID # ret.out.Address

Printed(item) == \E i \in 1 .. Len(output) : output[i] = item

\* C20: whenever the command is run with -v/--version and without -h, it
\* prints the version line and exits with status 0, whether or not a
\* positional argument is given.
C20_VersionPrinted ==
    (mainPc = "exited" /\ flags.showVersion /\ ~flags.help)
    => Printed("version") /\ exitCode = 0

\* C23: in every run with --html in which the HTML header is printed, the
\* HTML footer is printed before the process exits, in every mode (normal,
\* class-only, deaggregate, split) and on the success and the error path.
C23_FooterAfterHeader ==
    (mainPc = "exited" /\ Printed("header"))
    => \E i, j \in 1 .. Len(output) :
          i < j /\ output[i] = "header" /\ output[j] = "footer"

\* The footer is printed after the header exactly when normal mode succeeds.
FooterOnlyAfterNormal ==
    (mainPc = "exited" /\ Printed("header"))
    => (Printed("footer") <=> Printed("network"))

=========================================================================
